---- MODULE Spec2Model ----
(***************************************************************************)
(* Model of the AMF remoting client, pyamf/remoting/client/__init__.py:    *)
(* ServiceProxy / ServiceMethodProxy (call capture), RequestWrapper (the   *)
(* pending call) and RemotingService (request list, id counter, single     *)
(* and batched execution, HTTP response validation).                       *)
(*                                                                         *)
(* Objects are modelled by value plus an identity tag.  RequestWrapper     *)
(* objects live in the heap `wrappers'; a reference to one is its index.   *)
(* The HTTP peer is the environment: every exchange draws the response     *)
(* (status, Content-Type, body bytes) from HttpResponses.                  *)
(***************************************************************************)
EXTENDS Integers, Sequences, FiniteSets, TLC

VARIABLES
    requests,        \* RemotingService.requests: list of RequestWrapper refs
    request_number,  \* RemotingService.request_number
    wrappers,        \* heap of every RequestWrapper ever constructed
    last,            \* observation of the last operation the caller ran
    url,             \* RemotingService.url: the parsed URL
    _root_url,       \* RemotingService._root_url: the path every POST names
    connection,      \* RemotingService.connection, None if never opened
    constructed      \* the exception __init__ raised, "none" for a client

vars == <<requests, request_number, wrappers, last,
          url, _root_url, connection, constructed>>

----------------------------------------------------------------------------
(* Bounds *)

MaxRequests == 2     \* addRequest is called at most this many times

----------------------------------------------------------------------------
(* Python values *)

PyInt(n) == [int |-> n]
PyTuple(s) == [tuple |-> s]

None == <<>>
Some(v) == <<v>>

HTTP_OK == 200
CONTENT_TYPE == "application/x-amf"

DecDigits == <<"0", "1", "2", "3", "4", "5", "6", "7", "8", "9">>

\* '%d' % n for n >= 0
RECURSIVE FormatD(_)
FormatD(n) ==
    IF n < 10 THEN DecDigits[n + 1]
    ELSE FormatD(n \div 10) \o DecDigits[(n % 10) + 1]

\* list.index(x): position of the first element equal to x, 0 for ValueError
RECURSIVE IndexFrom(_, _, _)
IndexFrom(list, x, i) ==
    IF i > Len(list) THEN 0
    ELSE IF list[i] = x THEN i
    ELSE IndexFrom(list, x, i + 1)

ListIndex(list, x) == IndexFrom(list, x, 1)

\* del list[i]
ListDel(list, i) == SubSeq(list, 1, i - 1) \o SubSeq(list, i + 1, Len(list))

----------------------------------------------------------------------------
(* Call capture: ServiceProxy and ServiceMethodProxy *)

\* ServiceProxy.__init__; obj is the object's identity
ServiceProxy(name, auto_execute, obj) ==
    [cls |-> "ServiceProxy", _name |-> name, _auto_execute |-> auto_execute,
     obj |-> obj]

\* ServiceMethodProxy.__init__; name is None or Some(method name)
ServiceMethodProxy(service, name, obj) ==
    [cls |-> "ServiceMethodProxy", service |-> service, name |-> name,
     obj |-> obj]

\* ServiceProxy.__getattr__: every access builds a new ServiceMethodProxy,
\* whose identity obj is one no other object has
ServiceProxy__getattr__(self, name, obj) ==
    ServiceMethodProxy(self, Some(name), obj)

\* ServiceProxy.__str__
ServiceProxy__str__(self) == self._name

\* ServiceMethodProxy.__str__ leaving the method name out
ServiceMethodProxy__str__service(self) == ServiceProxy__str__(self.service)

\* ServiceMethodProxy.__str__
ServiceMethodProxy__str__(self) ==
    LET service_name == ServiceProxy__str__(self.service)
    IN  IF self.name # None
        THEN service_name \o "." \o self.name[1]
        ELSE service_name

\* str(service) for either proxy class
Str(service) ==
    IF service.cls = "ServiceMethodProxy"
    THEN ServiceMethodProxy__str__(service)
    ELSE ServiceProxy__str__(service)

\* request.service == service: neither proxy class defines __eq__, so two
\* proxies are equal only when they are the same object
SameObject(a, b) == a.cls = b.cls /\ a = b

----------------------------------------------------------------------------
(* RequestWrapper *)

\* RequestWrapper.__init__: no response and no _result attribute yet
RequestWrapper(id_, service, args) ==
    [id |-> id_, service |-> service, args |-> args,
     response |-> None, _result |-> None]

\* remoting.Response as far as the client reads it
Response(body) == [body |-> body]

\* setResponse keeping the response and setting no result
setResponse_noResult(heap, ref, response) ==
    [heap EXCEPT ![ref].response = Some(response)]

\* RequestWrapper.setResponse on the wrapper at heap[ref]
setResponse(heap, ref, response) ==
    [heap EXCEPT ![ref].response = Some(response),
                 ![ref]._result = Some(response.body)]

\* RequestWrapper._get_result, the getter of the result property: raises
\* when the wrapper has no _result attribute
_get_result(self) ==
    IF self._result = None
    THEN [err |-> "AttributeError", ret |-> None]
    ELSE [err |-> "none", ret |-> self._result]

\* a caller's reference to a RequestWrapper, as an argument value
WrapperArg(ref) == [cls |-> "RequestWrapper", ref |-> ref]

----------------------------------------------------------------------------
(* RemotingService.__init__ *)

\* urlparse.urlunparse((scheme, netloc, path, params, query, fragment))
urlunparse(data) ==
    LET scheme == data[1]
        netloc == data[2]
        u1 == IF data[4] # "" THEN data[3] \o ";" \o data[4] ELSE data[3]
        u2 == IF netloc # "" THEN "//" \o netloc \o u1 ELSE u1
        u3 == IF scheme # "" THEN scheme \o ":" \o u2 ELSE u2
        u4 == IF data[5] # "" THEN u3 \o "?" \o data[5] ELSE u3
    IN  IF data[6] # "" THEN u4 \o "#" \o data[6] ELSE u4

\* urlparse.urlparse(url) as the client reads it: the six components
\* (netloc by its parts userinfo, hostname, port) and whether the result has
\* the attributes port and hostname, which older library versions lack
ParsedUrl(scheme, userinfo, hostname, port, path, params, query, fragment, attrs) ==
    [scheme |-> scheme, userinfo |-> userinfo, hostname |-> hostname,
     port |-> port, path |-> path, params |-> params, query |-> query,
     fragment |-> fragment, attrs |-> attrs]

\* self.url[1], the netloc string: [userinfo@]hostname[:port]
Netloc(u) ==
    (IF u.userinfo # "" THEN u.userinfo \o "@" ELSE "") \o u.hostname
    \o (IF u.port # None THEN ":" \o FormatD(u.port[1]) ELSE "")

\* httplib.HTTPConnection(hostname, port) / httplib.HTTPSConnection(...)
Connection(cls, hostname, port) == [cls |-> cls, hostname |-> hostname, port |-> port]

\* the port and hostname read from the parsed URL, each None if absent.
\* With the attributes: url.port and url.hostname.  Without them: if the
\* netloc has a ':' (here: if it has a port; the userinfo has none), the
\* text before the last ':' is the hostname and the number after it the
\* port; otherwise both stay None.
HostAndPort(u) ==
    IF u.attrs
    THEN [hostname |-> Some(u.hostname), port |-> u.port]
    ELSE IF u.port = None
    THEN [hostname |-> None, port |-> None]
    ELSE [hostname |-> Some((IF u.userinfo # "" THEN u.userinfo \o "@" ELSE "")
                            \o u.hostname),
          port |-> u.port]

\* the default port being 80 whatever the scheme
DefaultPort_80(scheme) == 80

\* the port used when the URL has none
DefaultPort(scheme) == IF scheme = "http" THEN 80 ELSE 443

\* _root_url keeping scheme and netloc
RootUrl_absolute(u) ==
    urlunparse(<<u.scheme, Netloc(u), u.path, u.params, u.query, u.fragment>>)

\* urlunparse(['', ''] + list(self.url[2:]))
RootUrl(u) == urlunparse(<<"", "", u.path, u.params, u.query, u.fragment>>)

\* RemotingService.__init__(url): the fields of the new object and the
\* exception raised, if any
RemotingService__init__(u) ==
    LET hp == HostAndPort(u)
        port == IF hp.port = None THEN DefaultPort(u.scheme) ELSE hp.port[1]
        fields == [err |-> "none", url |-> u, requests |-> <<>>,
                   request_number |-> 1, _root_url |-> RootUrl(u),
                   connection |-> None]
    IN  IF u.scheme = "http"
        THEN [fields EXCEPT !.connection =
                 Some(Connection("HTTPConnection", hp.hostname, port))]
        ELSE IF u.scheme = "https"
        THEN [fields EXCEPT !.connection =
                 Some(Connection("HTTPSConnection", hp.hostname, port))]
        ELSE [fields EXCEPT !.err = "ValueError"]

----------------------------------------------------------------------------
(* RemotingService: the request list and the id counter *)

\* the mutable fields of one RemotingService
Gateway == [requests |-> requests, request_number |-> request_number,
            wrappers |-> wrappers]

\* the identity the next ServiceMethodProxy gets: a call builds one proxy
\* and then one request, so the request counter numbers the proxies too
NewObj(g) == g.request_number

\* result of a method that returned normally / raised
Ok(g, ret) == [g |-> g, err |-> "none", ret |-> ret]
Raise(g, err) == [g |-> g, err |-> err, ret |-> None]

\* getRequest returning the first queued request whatever its id
getRequest_first(g, id_) ==
    IF g.requests = <<>>
    THEN Raise(g, "LookupError")
    ELSE Ok(g, Some(g.requests[1]))

\* RemotingService.getRequest
getRequest(g, id_) ==
    LET hits == {i \in 1..Len(g.requests) : g.wrappers[g.requests[i]].id = id_}
    IN  IF hits = {}
        THEN Raise(g, "LookupError")
        ELSE Ok(g, Some(g.requests[CHOOSE i \in hits : \A j \in hits : i <= j]))

\* addRequest numbering the request by the length of the request list
addRequest_reuse(g, service, args) ==
    LET wrapper == RequestWrapper("/" \o FormatD(Len(g.requests) + 1), service, args)
        heap == Append(g.wrappers, wrapper)
    IN  Ok([requests |-> Append(g.requests, Len(heap)),
            request_number |-> g.request_number + 1,
            wrappers |-> heap], Some(Len(heap)))

\* addRequest putting the new request at the head of the request list
addRequest_front(g, service, args) ==
    LET wrapper == RequestWrapper("/" \o FormatD(g.request_number), service, args)
        heap == Append(g.wrappers, wrapper)
    IN  Ok([requests |-> <<Len(heap)>> \o g.requests,
            request_number |-> g.request_number + 1,
            wrappers |-> heap], Some(Len(heap)))

\* RemotingService.addRequest(service, *args): args is the tuple of the
\* positional arguments after service
addRequest(g, service, args) ==
    LET wrapper == RequestWrapper("/" \o FormatD(g.request_number), service, args)
        heap == Append(g.wrappers, wrapper)
        ref == Len(heap)
    IN  Ok([requests |-> Append(g.requests, ref),
            request_number |-> g.request_number + 1,
            wrappers |-> heap], Some(ref))

\* removeRequest returning without deleting anything
removeRequest_keep(g, service, args) == Ok(g, None)

\* RemotingService.removeRequest(service, *args)
removeRequest(g, service, args) ==
    IF service.cls = "RequestWrapper"
    THEN LET i == ListIndex(g.requests, service.ref)
         IN  IF i = 0
             THEN Raise(g, "ValueError")
             ELSE Ok([g EXCEPT !.requests = ListDel(g.requests, i)], None)
    ELSE LET hits == {i \in 1..Len(g.requests) :
                         /\ SameObject(g.wrappers[g.requests[i]].service, service)
                         /\ g.wrappers[g.requests[i]].args = args}
         IN  IF hits = {}
             THEN Raise(g, "LookupError")
             ELSE LET first == CHOOSE i \in hits : \A j \in hits : i <= j
                      i == ListIndex(g.requests, g.requests[first])
                  IN  Ok([g EXCEPT !.requests = ListDel(g.requests, i)], None)

\* remoting.Request(target, args): one outbound envelope entry
Request(target, args) == [target |-> target, args |-> args]

\* RemotingService.getAMFRequest: the envelope as its (key, Request) items;
\* assigning to a key that is already there replaces the value in place
RECURSIVE getAMFRequest(_, _)
getAMFRequest(g, reqs) ==
    IF reqs = <<>> THEN <<>>
    ELSE LET envelope == getAMFRequest(g, SubSeq(reqs, 1, Len(reqs) - 1))
             request == g.wrappers[reqs[Len(reqs)]]
             item == <<request.id, Request(Str(request.service), request.args)>>
             at == {i \in 1..Len(envelope) : envelope[i][1] = request.id}
         IN  IF at = {}
             THEN Append(envelope, item)
             ELSE [i \in 1..Len(envelope) |->
                      IF i \in at THEN item ELSE envelope[i]]

----------------------------------------------------------------------------
(* The exchange: HTTP response validation, single and batched execution *)

\* remoting.decode: well-formed bytes yield the envelope they encode, as
\* its (id, Response) items in iteration order; anything else is a codec fault
decode(bytes) ==
    IF bytes.wellformed
    THEN [err |-> "none", envelope |-> bytes.envelope]
    ELSE [err |-> "RemotingError", envelope |-> <<>>]

\* Envelope.__getitem__: the Response keyed by id_, None for KeyError
EnvelopeGet(envelope, id_) ==
    LET at == {i \in 1..Len(envelope) : envelope[i][1] = id_}
    IN  IF at = {} THEN None ELSE Some(envelope[CHOOSE i \in at : TRUE][2])

\* _getResponse decoding whatever the Content-Type is
_getResponse_anyType(http_response) ==
    LET got == [status |-> http_response.status,
                content_type |-> http_response.content_type,
                err |-> "RemotingError", msg |-> "", stage |-> "",
                envelope |-> <<>>]
    IN  IF http_response.status # HTTP_OK
        THEN [got EXCEPT !.stage = "status",
                         !.msg = "HTTP Gateway reported status "
                                 \o FormatD(http_response.status)]
        ELSE LET d == decode(http_response.bytes)
             IN  IF d.err # "none"
                 THEN [got EXCEPT !.stage = "decode", !.err = d.err]
                 ELSE [got EXCEPT !.stage = "decoded", !.err = "none",
                                  !.envelope = d.envelope]

\* RemotingService._getResponse; stage names the check that raised
_getResponse(http_response) ==
    LET got == [status |-> http_response.status,
                content_type |-> http_response.content_type,
                err |-> "RemotingError", msg |-> "", stage |-> "",
                envelope |-> <<>>]
    IN  IF http_response.status # HTTP_OK
        THEN [got EXCEPT !.stage = "status",
                         !.msg = "HTTP Gateway reported status "
                                 \o FormatD(http_response.status)]
        ELSE IF http_response.content_type # CONTENT_TYPE
        THEN [got EXCEPT !.stage = "content_type",
                         !.msg = "Incorrect MIME type received."]
        ELSE LET d == decode(http_response.bytes)
             IN  IF d.err # "none"
                 THEN [got EXCEPT !.stage = "decode", !.err = d.err]
                 ELSE [got EXCEPT !.stage = "decoded", !.err = "none",
                                  !.envelope = d.envelope]

\* what an exchange adds to the result of the method that ran it: the
\* envelopes POSTed, the status and Content-Type read from the HTTP
\* response, the message of the error _getResponse raised and the response
\* envelope decoded
Exchanged(r, sent, resp) ==
    [g |-> r.g, err |-> r.err, ret |-> r.ret,
     sent |-> sent, stage |-> resp.stage, received |-> resp.envelope,
     http |-> <<resp.status, resp.content_type>>, msg |-> resp.msg]

\* execute_single building its envelope from the whole request list
execute_single_batch(g, request, http_response) ==
    LET sent == <<getAMFRequest(g, g.requests)>>
        resp == _getResponse(http_response)
    IN  IF resp.err # "none"
        THEN Exchanged(Raise(g, resp.err), sent, resp)
        ELSE LET rm == removeRequest(g, WrapperArg(request), <<>>)
                 item == EnvelopeGet(resp.envelope, g.wrappers[request].id)
             IN  IF rm.err # "none"
                 THEN Exchanged(rm, sent, resp)
                 ELSE IF item = None
                 THEN Exchanged(Raise(rm.g, "KeyError"), sent, resp)
                 ELSE Exchanged(Ok(rm.g, item), sent, resp)

\* execute_single emptying the request list once the response is decoded
execute_single_flush(g, request, http_response) ==
    LET sent == <<getAMFRequest(g, <<request>>)>>
        resp == _getResponse(http_response)
    IN  IF resp.err # "none"
        THEN Exchanged(Raise(g, resp.err), sent, resp)
        ELSE LET rm == Ok([g EXCEPT !.requests = <<>>], None)
                 item == EnvelopeGet(resp.envelope, g.wrappers[request].id)
             IN  IF item = None
                 THEN Exchanged(Raise(rm.g, "KeyError"), sent, resp)
                 ELSE Exchanged(Ok(rm.g, item), sent, resp)

\* RemotingService.execute_single(request), request a RequestWrapper ref
execute_single(g, request, http_response) ==
    LET sent == <<getAMFRequest(g, <<request>>)>>
        resp == _getResponse(http_response)
    IN  IF resp.err # "none"
        THEN Exchanged(Raise(g, resp.err), sent, resp)
        ELSE LET rm == removeRequest(g, WrapperArg(request), <<>>)
                 item == EnvelopeGet(resp.envelope, g.wrappers[request].id)
             IN  IF rm.err # "none"
                 THEN Exchanged(rm, sent, resp)
                 ELSE IF item = None
                 THEN Exchanged(Raise(rm.g, "KeyError"), sent, resp)
                 ELSE Exchanged(Ok(rm.g, item), sent, resp)

\* the loop of RemotingService.execute over the decoded envelope
RECURSIVE executeLoop(_, _)
executeLoop(g, envelope) ==
    IF envelope = <<>> THEN Ok(g, None)
    ELSE LET found == getRequest(g, envelope[1][1])
         IN  IF found.err # "none" THEN found
             ELSE LET request == found.ret[1]
                      g2 == [g EXCEPT !.wrappers =
                                setResponse(g.wrappers, request, envelope[1][2])]
                      rm == removeRequest(g2, WrapperArg(request), <<>>)
                  IN  IF rm.err # "none" THEN rm
                      ELSE executeLoop(rm.g, Tail(envelope))

\* execute skipping the response entries that match no queued request
execute_dropUnknown(g, http_response) ==
    LET sent == <<getAMFRequest(g, g.requests)>>
        resp == _getResponse(http_response)
        known(item) == getRequest(g, item[1]).err = "none"
    IN  IF resp.err # "none"
        THEN Exchanged(Raise(g, resp.err), sent, resp)
        ELSE Exchanged(executeLoop(g, SelectSeq(resp.envelope, known)), sent, resp)

\* execute emptying the request list as it builds the envelope
execute_clearEarly(g, http_response) ==
    LET sent == <<getAMFRequest(g, g.requests)>>
        resp == _getResponse(http_response)
    IN  IF resp.err # "none"
        THEN Exchanged(Raise([g EXCEPT !.requests = <<>>], resp.err), sent, resp)
        ELSE Exchanged(executeLoop(g, resp.envelope), sent, resp)

\* RemotingService.execute
execute(g, http_response) ==
    LET sent == <<getAMFRequest(g, g.requests)>>
        resp == _getResponse(http_response)
    IN  IF resp.err # "none"
        THEN Exchanged(Raise(g, resp.err), sent, resp)
        ELSE Exchanged(executeLoop(g, resp.envelope), sent, resp)

\* no exchange happened
NoExchange(r) ==
    [g |-> r.g, err |-> r.err, ret |-> r.ret,
     sent |-> <<>>, stage |-> "none", received |-> <<>>,
     http |-> <<>>, msg |-> ""]

\* _call executing at once whatever _auto_execute says
_call_always(g, self, method_proxy, args, http_response) ==
    LET added == addRequest(g, method_proxy, <<args>>)
        single == execute_single(added.g, added.ret[1], http_response)
    IN  IF single.err # "none" THEN single
        ELSE [single EXCEPT !.ret = Some(single.ret[1].body)]

\* ServiceProxy._call(method_proxy, args): args is the tuple the caller's
\* arguments were collected into; it is handed to addRequest as ONE
\* positional argument
_call(g, self, method_proxy, args, http_response) ==
    LET added == addRequest(g, method_proxy, <<args>>)
        request == added.ret[1]
    IN  IF self._auto_execute
        THEN LET single == execute_single(added.g, request, http_response)
             IN  IF single.err # "none" THEN single
                 ELSE [single EXCEPT !.ret = Some(single.ret[1].body)]
        ELSE NoExchange(added)

\* ServiceMethodProxy.__call__(*args)
ServiceMethodProxy__call__(g, self, args, http_response) ==
    _call(g, self.service, self, PyTuple(args), http_response)

\* ServiceProxy.__call__(*args)
ServiceProxy__call__(g, self, args, http_response) ==
    _call(g, self, ServiceMethodProxy(self, None, NewObj(g)), PyTuple(args),
          http_response)

----------------------------------------------------------------------------
(* Inputs *)

\* the ServiceProxy objects the caller got from getService
AutoHandle == ServiceProxy("math", TRUE, 1)
DeferredHandle == ServiceProxy("math", FALSE, 2)

\* the calls the caller makes, as (handle, method name, arguments):
\* auto.add(1, 2), deferred.add(1, 2) and deferred()
Calls == {<<AutoHandle, Some("add"), <<PyInt(1), PyInt(2)>> >>,
          <<DeferredHandle, Some("add"), <<PyInt(1), PyInt(2)>> >>,
          <<DeferredHandle, None, <<>> >>}

\* the requests the caller registers or removes through the gateway itself,
\* as (service, arguments)
Registrations == {<<DeferredHandle, <<PyInt(1), PyInt(2)>> >>}

\* payloads a Response carries: a normal value or a remote fault
NormalBody == [fault |-> FALSE, value |-> 3]
FaultBody == [fault |-> TRUE, value |-> 0]
Bodies == {NormalBody, FaultBody}

\* ids the gateway may answer: the ids the client can issue
ResponseIds == {"/" \o FormatD(k) : k \in 1..MaxRequests}

\* the sequences of distinct ids
RECURSIVE IdSeqs(_)
IdSeqs(n) ==
    IF n = 0 THEN {<<>>}
    ELSE {Append(e, id) : e \in IdSeqs(n - 1), id \in ResponseIds} \
         {e \in [1..n -> ResponseIds] : \E i, j \in 1..n : i # j /\ e[i] = e[j]}

\* response envelopes: keyed by id, so no id twice, in any iteration order;
\* entries carry a normal value and a fault in turn
Envelopes ==
    {[i \in 1..Len(ids) |->
         <<ids[i], Response(IF i % 2 = 1 THEN NormalBody ELSE FaultBody)>>] :
        ids \in UNION {IdSeqs(n) : n \in 0..MaxRequests}}

Malformed == [wellformed |-> FALSE, envelope |-> <<>>]
Encoded(e) == [wellformed |-> TRUE, envelope |-> e]

\* what connection.getresponse() may hand back: with status 200 and the
\* AMF Content-Type any body; with another status or Content-Type a body
\* that would decode to an answer for "/1"
HttpResponses ==
    {[status |-> HTTP_OK, content_type |-> CONTENT_TYPE, bytes |-> b] :
        b \in {Malformed} \cup {Encoded(e) : e \in Envelopes}}
    \cup
    {[status |-> st, content_type |-> ct, bytes |-> b] :
        st \in {HTTP_OK, 404}, ct \in {CONTENT_TYPE, "text/html"},
        b \in {Encoded(<< <<"/1", Response(NormalBody)>> >>)}}

\* the URL of the gateway: http://example.org/gateway
GatewayUrl == ParsedUrl("http", "", "example.org", None, "/gateway", "", "", "", TRUE)

\* what may follow the path of a URL, as (params, query, fragment):
\* nothing, a query, or all three
UrlTails == {<<"", "", "">>, <<"", "a=1", "">>, <<"p", "a=1", "f">>}

\* the URLs a client is constructed with: a supported or an unsupported
\* scheme, with or without userinfo and port, with any of the tails, parsed
\* with or without the attributes
Urls ==
    {ParsedUrl(scheme, userinfo, "example.org", port, "/gateway",
               tail[1], tail[2], tail[3], attrs) :
        scheme \in {"http", "https", "ftp"}, userinfo \in {"", "user"},
        port \in {None, Some(8000)}, tail \in UrlTails, attrs \in BOOLEAN}

\* a response for an operation that never reads one
NoHttp == [status |-> HTTP_OK, content_type |-> CONTENT_TYPE, bytes |-> Malformed]

----------------------------------------------------------------------------
(* Specification *)

\* what the caller saw of an operation: its name, the captured call
\* (handle, method, arguments) if it was one or the (service, arguments)
\* given to removeRequest, the exception it raised, its
\* return value, the RequestWrapper it was about, the request list and the
\* counter it started from, and its exchange: each envelope sent went out
\* as connection.request('POST', self._root_url, body)
Observed(op, call, req, r) ==
    [op |-> op, call |-> call, err |-> r.err, ret |-> r.ret, req |-> req,
     before |-> requests, before_number |-> request_number,
     sent |-> r.sent, stage |-> r.stage, received |-> r.received,
     http |-> r.http, msg |-> r.msg,
     posted |-> [i \in 1..Len(r.sent) |-> <<"POST", _root_url>>]]

Commit(op, call, req, r) ==
    /\ constructed = "none"
    /\ requests' = r.g.requests
    /\ request_number' = r.g.request_number
    /\ wrappers' = r.g.wrappers
    /\ last' = Observed(op, call, req, r)
    /\ UNCHANGED <<url, _root_url, connection, constructed>>

\* the state after RemotingService(u)
Constructed(u) ==
    LET new == RemotingService__init__(u)
    IN  /\ requests = new.requests
        /\ request_number = new.request_number
        /\ wrappers = <<>>
        /\ url = new.url
        /\ _root_url = new._root_url
        /\ connection = new.connection
        /\ constructed = new.err
        /\ last = [op |-> "init", call |-> <<>>, err |-> new.err, ret |-> None,
                   req |-> 0, before |-> <<>>, before_number |-> 1,
                   sent |-> <<>>, stage |-> "none", received |-> <<>>,
                   http |-> <<>>, msg |-> "", posted |-> <<>>]

\* RemotingService('http://example.org/gateway')
Init == Constructed(GatewayUrl)

\* handle.method(*args) or handle(*args)
Invoke(g, handle, method, args, http_response) ==
    IF method = None
    THEN ServiceProxy__call__(g, handle, args, http_response)
    ELSE ServiceMethodProxy__call__(g, ServiceProxy__getattr__(handle, method[1],
                                                               NewObj(g)),
                                    args, http_response)

\* gw.addRequest(service, *args)
AddRequest ==
    /\ request_number <= MaxRequests
    /\ \E reg \in Registrations :
          Commit("addRequest", <<>>, Len(wrappers) + 1,
                 NoExchange(addRequest(Gateway, reg[1], reg[2])))

\* a call on a deferred handle
InvokeDeferred ==
    /\ request_number <= MaxRequests
    /\ \E call \in Calls :
          /\ ~call[1]._auto_execute
          /\ Commit("invoke_deferred", call, Len(wrappers) + 1,
                    Invoke(Gateway, call[1], call[2], call[3], NoHttp))

\* a call on an auto-execute handle
InvokeAuto ==
    /\ request_number <= MaxRequests
    /\ \E call \in Calls, http_response \in HttpResponses :
          /\ call[1]._auto_execute
          /\ Commit("invoke_auto", call, Len(wrappers) + 1,
                    Invoke(Gateway, call[1], call[2], call[3], http_response))

\* gw.removeRequest(wrapper)
RemoveRequestWrapper ==
    \E ref \in 1..Len(wrappers) :
        Commit("removeRequest", <<>>, ref,
               NoExchange(removeRequest(Gateway, WrapperArg(ref), <<>>)))

\* gw.removeRequest(service, *args)
RemoveRequestService ==
    \E reg \in Registrations :
        Commit("removeRequest_service", reg, 0,
               NoExchange(removeRequest(Gateway, reg[1], reg[2])))

\* the RequestWrapper refs in a request list
Refs(reqs) == {reqs[i] : i \in 1..Len(reqs)}

\* gw.execute_single(wrapper), for a wrapper that is pending
ExecuteSingle ==
    \E ref \in Refs(requests), http_response \in HttpResponses :
        Commit("execute_single", <<>>, ref,
               execute_single(Gateway, ref, http_response))

\* gw.execute()
Execute ==
    \E http_response \in HttpResponses :
        Commit("execute", <<>>, 0, execute(Gateway, http_response))

Next ==
    \/ AddRequest
    \/ InvokeDeferred
    \/ InvokeAuto
    \/ RemoveRequestWrapper
    \/ RemoveRequestService
    \/ ExecuteSingle
    \/ Execute

Spec == Init /\ [][Next]_vars

\* construction with any of the URLs, then the operations that exchange
InitAnyUrl == \E u \in Urls : Constructed(u)

NextExchange ==
    \/ InvokeAuto
    \/ ExecuteSingle
    \/ Execute

SpecConstruct == InitAnyUrl /\ [][NextExchange]_vars

----------------------------------------------------------------------------
(* Properties *)

\* the ids of the calls in a request list, in list order
IdsOf(reqs) == [i \in 1..Len(reqs) |-> wrappers[reqs[i]].id]

\* the keys of an envelope, in iteration order, and as a set
KeysOf(envelope) == [i \in 1..Len(envelope) |-> envelope[i][1]]
KeySet(envelope) == {envelope[i][1] : i \in 1..Len(envelope)}

\* the calls the last operation started with that are no longer queued
Answered == {r \in Refs(last.before) : wrappers[r].id \in KeySet(last.received)}

Registers == {"addRequest", "invoke_deferred", "invoke_auto"}

\* C1: the k-th addRequest returns a call whose id is "/k", whatever
\* removeRequest and execute calls came in between, and no id is issued twice.
C1_IdsInCallOrder ==
    /\ \A k \in 1..Len(wrappers) : wrappers[k].id = "/" \o ToString(k)
    /\ \A j, k \in 1..Len(wrappers) : wrappers[j].id = wrappers[k].id => j = k
    /\ request_number = Len(wrappers) + 1
    /\ last.op \in Registers =>
          /\ last.req = Len(wrappers)
          /\ last.before_number = last.req
    /\ last.op \in {"addRequest", "invoke_deferred"} => last.ret = Some(last.req)

\* C1 witness: a call was registered as "/2" after the call "/1" had been
\* removed from the queue.
C1_Witness ==
    /\ last.op \in {"addRequest", "invoke_deferred"}
    /\ last.req = 2
    /\ last.before = <<>>
    /\ wrappers[2].id = "/2"
    /\ requests = <<2>>

\* C2: after execute handled a response envelope whose ids are all ids of
\* queued calls, each queued call named in the envelope carries that entry's
\* response and is off the queue, and each other queued call has no response
\* and is still queued, in the original order.
C2_BatchCorrelation ==
    (/\ last.op = "execute"
     /\ last.stage = "decoded"
     /\ KeySet(last.received) \subseteq {wrappers[r].id : r \in Refs(last.before)})
    =>
    /\ last.err = "none"
    /\ \A r \in Refs(last.before) :
          IF r \in Answered
          THEN /\ r \notin Refs(requests)
               /\ \E i \in 1..Len(last.received) :
                     /\ last.received[i][1] = wrappers[r].id
                     /\ wrappers[r].response = Some(last.received[i][2])
          ELSE /\ r \in Refs(requests)
               /\ wrappers[r].response = None
    /\ requests = SelectSeq(last.before, LAMBDA r : r \notin Answered)

\* C2 witness: of two queued calls, the envelope answered the second only.
C2_Witness ==
    /\ last.op = "execute"
    /\ last.err = "none"
    /\ last.before = <<1, 2>>
    /\ KeysOf(last.received) = <<"/2">>
    /\ requests = <<1>>
    /\ wrappers[2].response = Some(Response(NormalBody))

\* C3: execute_single(c) never leaves c in the queue, whether the exchange
\* succeeds or ends with a protocol error.
C3_SingleNeverLeavesQueued ==
    last.op \in {"execute_single", "invoke_auto"} =>
        last.req \notin Refs(requests)

\* C4: removeRequest(x) for a queued RequestWrapper x removes x; for one
\* that is not queued (removed before, or never queued) it raises
\* LookupError and leaves the queue unchanged.
C4_CancelByWrapper ==
    last.op = "removeRequest" =>
        IF last.req \in Refs(last.before)
        THEN /\ last.err = "none"
             /\ last.req \notin Refs(requests)
        ELSE /\ last.err = "LookupError"
             /\ requests = last.before

\* C5: when the response envelope handled by execute has an entry whose id
\* matches no queued call, execute raises LookupError.
C5_UnknownIdFails ==
    (/\ last.op = "execute"
     /\ last.stage = "decoded"
     /\ \E i \in 1..Len(last.received) :
           \A r \in Refs(last.before) : wrappers[r].id # last.received[i][1])
    => last.err = "LookupError"

\* C5 witness: the envelope answered the queued call "/1" and then named
\* "/2", which was not queued.
C5_Witness ==
    /\ last.op = "execute"
    /\ last.before = <<1>>
    /\ KeysOf(last.received) = <<"/1", "/2">>
    /\ last.err = "LookupError"

\* C6: when execute ends with a protocol error of response validation or
\* decoding, the queue is what it was, no queued call has a response, the
\* id counter is what it was; and every execute sends all the calls of the
\* queue it starts from, so the next one sends these calls again.
C6_FailedBatchKeepsQueue ==
    /\ (last.op = "execute" /\ last.err = "RemotingError") =>
          /\ requests = last.before
          /\ \A r \in Refs(requests) :
                wrappers[r].response = None /\ wrappers[r]._result = None
          /\ request_number = last.before_number
    /\ last.op = "execute" =>
          /\ Len(last.sent) = 1
          /\ KeysOf(last.sent[1]) = IdsOf(last.before)

\* C6 witness: a batch of two calls was sent and its response failed to
\* decode.
C6_Witness ==
    /\ last.op = "execute"
    /\ last.err = "RemotingError"
    /\ last.stage = "decode"
    /\ requests = <<1, 2>>
    /\ KeysOf(last.sent[1]) = <<"/1", "/2">>

\* C7: a call on an auto-execute handle registers exactly one call and
\* performs exactly one exchange, whose envelope holds exactly that call's
\* id; when it returns, it returns the body of the response entry keyed by
\* that id and the queue is what it was before the call.
C7_AutoExecute ==
    last.op = "invoke_auto" =>
        /\ Len(wrappers) = last.req
        /\ request_number = last.before_number + 1
        /\ Len(last.sent) = 1
        /\ KeysOf(last.sent[1]) = <<wrappers[last.req].id>>
        /\ last.err = "none" =>
              /\ \E i \in 1..Len(last.received) :
                    /\ last.received[i][1] = wrappers[last.req].id
                    /\ last.ret = Some(last.received[i][2].body)
              /\ requests = last.before

\* C7 witness: with a deferred call queued, an auto-execute call got an
\* envelope answering both ids and returned the payload keyed by its own.
C7_Witness ==
    /\ last.op = "invoke_auto"
    /\ last.err = "none"
    /\ last.before = <<1>>
    /\ KeysOf(last.received) = <<"/1", "/2">>
    /\ last.ret = Some(FaultBody)
    /\ requests = <<1>>

\* the target name of a captured call: "service.method", or "service"
TargetOf(call) ==
    IF call[2] = None THEN call[1]._name ELSE call[1]._name \o "." \o call[2][1]

\* C8: the envelope entry built for a call captured as service.method(a1,
\* ..., ak) is keyed by the call's id and holds the target name and exactly
\* the argument list (a1, ..., ak).
C8_EnvelopeEntry ==
    last.op \in {"invoke_deferred", "invoke_auto"} =>
        LET envelope == getAMFRequest(Gateway, <<last.req>>)
        IN  /\ Len(envelope) = 1
            /\ envelope[1][1] = wrappers[last.req].id
            /\ envelope[1][2].target = TargetOf(last.call)
            /\ envelope[1][2].args = last.call[3]

\* C9: a call on a deferred handle registers the call, returns it and sends
\* nothing; execute performs exactly one exchange, whose envelope holds
\* exactly the ids of the calls queued at that moment; when the response
\* answers all of them, all carry a response and the queue is empty.
C9_DeferredThenBatch ==
    /\ last.op = "invoke_deferred" =>
          /\ last.err = "none"
          /\ last.sent = <<>>
          /\ last.ret = Some(last.req)
          /\ requests = Append(last.before, last.req)
          /\ wrappers[last.req].response = None
    /\ last.op = "execute" =>
          /\ Len(last.sent) = 1
          /\ KeysOf(last.sent[1]) = IdsOf(last.before)
          /\ (/\ last.stage = "decoded"
              /\ KeySet(last.received) = {wrappers[r].id : r \in Refs(last.before)})
             => /\ last.err = "none"
                /\ requests = <<>>
                /\ \A r \in Refs(last.before) : wrappers[r].response # None

\* C9 witness: two deferred calls "/1" and "/2" were sent in one envelope
\* and both answered.
C9_Witness ==
    /\ last.op = "execute"
    /\ last.before = <<1, 2>>
    /\ \A r \in {1, 2} :
          /\ wrappers[r].service.cls = "ServiceMethodProxy"
          /\ wrappers[r].service.service = DeferredHandle
    /\ KeysOf(last.sent[1]) = <<"/1", "/2">>
    /\ KeySet(last.received) = {"/1", "/2"}
    /\ requests = <<>>
    /\ wrappers[1].response # None /\ wrappers[2].response # None

\* C10: a call that left the queue through execute_single or execute has
\* its response attached and its result readable: Pending -> Completed is
\* the only way off the queue besides removeRequest.
C10_LeftQueueCompleted ==
    last.op \in {"execute_single", "invoke_auto", "execute"} =>
        \A r \in (Refs(last.before) \cup {last.req}) \ ({0} \cup Refs(requests)) :
            wrappers[r].response # None /\ wrappers[r]._result # None

\* C11: reading result on a RequestWrapper that has no response attached
\* raises AttributeError and returns nothing; once setResponse(r) has run,
\* result is exactly r.body, a normal value or a remote fault alike.
C11_ResultAfterResponse ==
    \A k \in 1..Len(wrappers) :
        IF wrappers[k].response = None
        THEN _get_result(wrappers[k]) = [err |-> "AttributeError", ret |-> None]
        ELSE _get_result(wrappers[k]) =
                [err |-> "none", ret |-> Some(wrappers[k].response[1].body)]

\* C11 witness: execute attached a fault to the call "/1" and a normal value
\* to the call "/2", and both results read back as attached.
C11_Witness ==
    /\ last.op = "execute"
    /\ Len(wrappers) = 2
    /\ wrappers[1].response = Some(Response(FaultBody))
    /\ _get_result(wrappers[1]).ret = Some(FaultBody)
    /\ wrappers[2].response = Some(Response(NormalBody))
    /\ _get_result(wrappers[2]).ret = Some(NormalBody)

\* the number k of the id "/k"; 0 for anything else
IdNumber(id_) ==
    LET ks == {k \in 1..Len(wrappers) : id_ = "/" \o ToString(k)}
    IN  IF ks = {} THEN 0 ELSE CHOOSE k \in ks : TRUE

\* C12: in every reachable state the request list holds no two calls with
\* the same id, and its calls stand in the order they were added, which is
\* the order of strictly increasing id number; execute builds its envelope
\* in that order.
C12_QueueOrdered ==
    /\ \A i, j \in 1..Len(requests) :
          /\ i # j => wrappers[requests[i]].id # wrappers[requests[j]].id
          /\ i < j => /\ requests[i] < requests[j]
                      /\ 0 < IdNumber(wrappers[requests[i]].id)
                      /\ IdNumber(wrappers[requests[i]].id)
                            < IdNumber(wrappers[requests[j]].id)
    /\ (last.op \in Registers /\ last.req \in Refs(requests)) =>
          requests = Append(last.before, last.req)
    /\ last.op = "execute" =>
          \A i \in 1..Len(last.before) :
              last.sent[1][i][1] = wrappers[last.before[i]].id

\* C12 witness: two calls were queued, "/1" before "/2", and a failed
\* batch sent them in that order and left them queued in that order.
C12_Witness ==
    /\ last.op = "execute"
    /\ last.stage = "status"
    /\ IdsOf(requests) = <<"/1", "/2">>
    /\ KeysOf(last.sent[1]) = <<"/1", "/2">>

\* the request was captured as handle.method(*args) for some method name
CapturedAs(request, handle, args) ==
    /\ request.service.cls = "ServiceMethodProxy"
    /\ request.service.service = handle
    /\ request.service.name # None
    /\ request.args = <<PyTuple(args)>>

\* C13: removeRequest(service, *args) removes exactly the first queued call
\* whose service is the given one and whose arguments equal the given ones,
\* leaving all others in place and in order, and raises LookupError with the
\* queue unchanged when there is none; a queued deferred call captured as
\* handle.method(*args) is removed by removeRequest(handle, *args).
C13_CancelByService ==
    last.op = "removeRequest_service" =>
        LET hits == {i \in 1..Len(last.before) :
                        /\ SameObject(wrappers[last.before[i]].service, last.call[1])
                        /\ wrappers[last.before[i]].args = last.call[2]}
            captured == {i \in 1..Len(last.before) :
                            CapturedAs(wrappers[last.before[i]],
                                       last.call[1], last.call[2])}
        IN  /\ IF hits = {}
               THEN last.err = "LookupError" /\ requests = last.before
               ELSE /\ last.err = "none"
                    /\ requests = ListDel(last.before,
                                         CHOOSE i \in hits : \A j \in hits : i <= j)
            /\ captured # {} =>
                  /\ last.err = "none"
                  /\ Len(requests) = Len(last.before) - 1

\* C14: an exchange yields a decoded envelope only if the HTTP status is
\* 200 and the Content-Type is the AMF one; any other status raises
\* RemotingError with a message carrying that status, and status 200 with
\* another Content-Type raises RemotingError; in both cases nothing is
\* decoded, no call gets a response and the queue keeps every call.
C14_ResponseValidation ==
    last.stage # "none" =>
        LET untouched ==
                /\ last.err = "RemotingError"
                /\ last.received = <<>>
                /\ \A r \in Refs(last.before) \cup (Refs(requests) \ {0}) :
                      wrappers[r].response = None /\ wrappers[r]._result = None
                /\ Refs(last.before) \subseteq Refs(requests)
        IN  /\ last.stage = "decoded" => last.http = <<HTTP_OK, CONTENT_TYPE>>
            /\ last.http[1] # HTTP_OK =>
                  /\ last.stage = "status"
                  /\ last.msg = "HTTP Gateway reported status "
                                \o ToString(last.http[1])
                  /\ untouched
            /\ (last.http[1] = HTTP_OK /\ last.http[2] # CONTENT_TYPE) =>
                  /\ last.stage = "content_type"
                  /\ untouched

\* C14 witness: a batch holding the call "/1" got status 200 with
\* Content-Type text/html and a body answering "/1"; the call has no
\* response and is still queued.
C14_Witness ==
    /\ last.op = "execute"
    /\ last.http = <<HTTP_OK, "text/html">>
    /\ last.err = "RemotingError"
    /\ last.before = <<1>>
    /\ requests = <<1>>
    /\ wrappers[1].response = None

C16_TargetName ==
    /\ \A k \in 1..Len(wrappers) :
          wrappers[k].service.cls = "ServiceMethodProxy" =>
              LET proxy == wrappers[k].service
                  target == getAMFRequest(Gateway, <<k>>)[1][2].target
              IN  /\ target = Str(proxy)
                  /\ proxy.name = None => target = proxy.service._name
                  /\ proxy.name # None =>
                        target = proxy.service._name \o "." \o proxy.name[1]
    /\ last.op \in {"invoke_deferred", "invoke_auto"} =>
          /\ wrappers[last.req].service.service = last.call[1]
          /\ wrappers[last.req].service.name = last.call[2]
          /\ last.op = "invoke_auto" =>
                last.sent[1][1][2].target = TargetOf(last.call)
    /\ \A j, k \in 1..Len(wrappers) :
          (/\ j # k
           /\ wrappers[j].service.cls = "ServiceMethodProxy"
           /\ wrappers[k].service.cls = "ServiceMethodProxy"
           /\ wrappers[j].service.service = wrappers[k].service.service
           /\ wrappers[j].service.name = wrappers[k].service.name)
          => /\ ~SameObject(wrappers[j].service, wrappers[k].service)
             /\ Str(wrappers[j].service) = Str(wrappers[k].service)

\* C16 witness: deferred.add was obtained and called twice; the two calls
\* hold different proxy objects and were both sent with target "math.add".
C16_Witness ==
    /\ last.op = "execute"
    /\ last.before = <<1, 2>>
    /\ wrappers[1].service = ServiceMethodProxy(DeferredHandle, Some("add"), 1)
    /\ wrappers[2].service = ServiceMethodProxy(DeferredHandle, Some("add"), 2)
    /\ last.sent[1][1][2].target = "math.add"
    /\ last.sent[1][2][2].target = "math.add"

\* the URL without its scheme and netloc: path[;params][?query][#fragment]
AfterNetloc(u) ==
    u.path \o (IF u.params = "" THEN "" ELSE ";" \o u.params)
           \o (IF u.query = "" THEN "" ELSE "?" \o u.query)
           \o (IF u.fragment = "" THEN "" ELSE "#" \o u.fragment)

C18_QueuedHaveNoResponse ==
    /\ \A r \in Refs(requests) :
          wrappers[r].response = None /\ wrappers[r]._result = None
    /\ \A k \in 1..Len(wrappers) :
          wrappers[k].response # None => k \notin Refs(requests)

\* C18 witness: with only the call "/2" queued, a batch response answered
\* "/2" and then named "/1"; execute raised LookupError, "/2" has its
\* response and is off the queue.
C18_Witness ==
    /\ last.op = "execute"
    /\ last.err = "LookupError"
    /\ last.before = <<2>>
    /\ KeysOf(last.received) = <<"/2", "/1">>
    /\ wrappers[2].response # None
    /\ requests = <<>>

\* C19: a call on an auto-execute handle made while other calls are queued
\* sends an envelope with the new call's id only and leaves each call that
\* was queued before in the request list, in the same order and without a
\* response, whatever ids the response envelope holds; a later execute
\* sends every call of the request list.
C19_AutoLeavesDeferred ==
    /\ last.op = "invoke_auto" =>
          /\ Len(last.sent) = 1
          /\ KeysOf(last.sent[1]) = <<"/" \o ToString(last.req)>>
          /\ SelectSeq(requests, LAMBDA r : r # last.req) = last.before
          /\ \A r \in Refs(last.before) :
                wrappers[r].response = None /\ wrappers[r]._result = None
    /\ last.op = "execute" =>
          \A r \in Refs(last.before) :
              \E i \in 1..Len(last.sent[1]) :
                  /\ last.sent[1][i][1] = wrappers[r].id
                  /\ last.sent[1][i][2].target = Str(wrappers[r].service)

\* C19 witness: with the deferred call "/1" queued, an auto-execute call
\* "/2" got a response answering "/2" and "/1" and returned; "/1" is still
\* queued and has no response.
C19_Witness ==
    /\ last.op = "invoke_auto"
    /\ last.err = "none"
    /\ last.before = <<1>>
    /\ wrappers[1].service.cls = "ServiceMethodProxy"
    /\ wrappers[1].service.service = DeferredHandle
    /\ KeysOf(last.received) = <<"/2", "/1">>
    /\ requests = <<1>>
    /\ wrappers[1].response = None

====
